---- MODULE Spec2Model ----
(***************************************************************************)
(* ssh-mob: the per-agent connect / retry / command-loop state machine of  *)
(* ssh.go, the agent launch loop of main.go and the two-stage signal       *)
(* handling of the reliability design.                                     *)
(*                                                                         *)
(* Time is discrete (one Tick = one second).  A pending time.After is the  *)
(* number of seconds left before its channel becomes ready; an instant     *)
(* (Agent.ConnectionStart) is kept as the dial that recorded it together   *)
(* with the number of seconds elapsed since.                               *)
(***************************************************************************)
EXTENDS Integers, Sequences, FiniteSets, TLC

\* ------------------------------------------------------------------ bounds
MaxCount        == 2    \* largest -count
MaxRetriesBound == 2    \* largest -retries
MaxTTL          == 1    \* largest -ttl (seconds)
MaxRandom       == 2    \* largest -random-max
MaxIdx          == 2    \* command cycles followed per agent
MaxSignals      == 2    \* external interrupts delivered per run
MaxAttemptIdx   == 70   \* largest attempt index given to getBackoffDuration
MaxScriptLen    == 2    \* longest command script
MaxCmdIdx       == 4    \* largest index given to getCommand

\* --------------------------------------------------- 64-bit machine words
\* An int64 / time.Duration is the function of its eight two's-complement
\* bytes, byte 0 the least significant.
Bytes == 0..7

\* the word of a number 0 <= n < 2^31
Word64(n) == [k \in Bytes |-> IF k <= 3 THEN (n \div (256 ^ k)) % 256 ELSE 0]

Byte(x, k) == IF k \in Bytes THEN x[k] ELSE 0

\* x << s on int64: bits shifted out are lost, a count >= 64 gives 0
Shl64(x, s) ==
  IF s >= 64 THEN [k \in Bytes |-> 0]
  ELSE LET q == s \div 8
           m == 2 ^ (s % 8) IN
       [k \in Bytes |-> ((Byte(x, k - q) * m) % 256) + ((Byte(x, k - q - 1) * m) \div 256)]

\* The product of two words given by their bytes: the columns of the
\* schoolbook product, then the carries from byte to byte; what does not fit
\* in eight bytes is lost.
MulBytes(x, y) ==
  LET T(j, k) == IF j <= k THEN x[j] * y[k - j] ELSE 0
      S(k) == T(0, k) + T(1, k) + T(2, k) + T(3, k) + T(4, k) + T(5, k) + T(6, k) + T(7, k)
      v0 == S(0)
      v1 == S(1) + (v0 \div 256)
      v2 == S(2) + (v1 \div 256)
      v3 == S(3) + (v2 \div 256)
      v4 == S(4) + (v3 \div 256)
      v5 == S(5) + (v4 \div 256)
      v6 == S(6) + (v5 \div 256)
      v7 == S(7) + (v6 \div 256)
  IN  (0 :> v0 % 256) @@ (1 :> v1 % 256) @@ (2 :> v2 % 256) @@ (3 :> v3 % 256) @@
      (4 :> v4 % 256) @@ (5 :> v5 % 256) @@ (6 :> v6 % 256) @@ (7 :> v7 % 256)

\* x * y on int64, wrapping (each operand is evaluated once)
Mul64(x, y) == CHOOSE r \in {MulBytes(p[1], p[2]) : p \in {<<x, y>>}} : TRUE

IsNeg64(x) == x[7] >= 128

\* signed comparison of two words given by their bytes
GtBytes(x, y) ==
  LET D == {k \in Bytes : x[k] # y[k]} IN
  IF D = {} THEN FALSE
  ELSE IF IsNeg64(x) # IsNeg64(y) THEN IsNeg64(y)
  ELSE LET top == CHOOSE k \in D : \A j \in D : j <= k IN x[top] > y[top]

\* signed x > y (each operand is evaluated once)
Gt64(x, y) == \E p \in {<<x, y>>} : GtBytes(p[1], p[2])

\* time.Second, in nanoseconds
Second == Word64(1000000000)

Seconds64(s) == Mul64(Word64(s), Second)

\* ----------------------------------------------------------- ssh.go, pure
\* time.Duration(1<<attempt) * time.Second, capped when > 16*time.Second
getBackoffDuration(attempt) ==
  LET backoff == Mul64(Shl64(Word64(1), attempt), Second) IN
  IF Gt64(backoff, Seconds64(16)) THEN Seconds64(16) ELSE backoff

\* The whole seconds a time.After(d) takes to fire: a zero or negative
\* duration fires at once.
TimerSeconds(d) ==
  IF IsNeg64(d) THEN 0
  ELSE Cardinality({s \in 1..16 : ~Gt64(Seconds64(s), d)})

DefaultCommand == "echo 'Hello, world!'"

\* faulty variant: past the end the script starts over
getCommandWrap(script, idx) ==
  IF Len(script) > 0 THEN script[(idx % Len(script)) + 1] ELSE DefaultCommand

getCommand(script, idx) ==
  IF Len(script) > 0
    THEN IF idx >= Len(script) THEN "" ELSE script[idx + 1]
    ELSE DefaultCommand

\* faulty variant: the quotient the other way round
getSleepDurationInverse(rate) == rate \div 60

\* time.Duration(60/a.CommandRate) * time.Second, in seconds
getSleepDuration(rate) == 60 \div rate


\* ------------------------------------------------------------------ values
G == 0..(MaxCount - 1)          \* agent goroutines / agent slots, by launch index
Handles == 1..MaxCount          \* goroutine g's successful dial yields handle g+1
NilConn == 0                    \* Agent.Connection == nil
NilAgent == [nil |-> TRUE]      \* agents[k] not yet constructed

NoErr        == [kind |-> "nil", n |-> 0]
Canceled     == [kind |-> "context canceled", n |-> 0]
DialErr(k)   == [kind |-> "dial", n |-> k]      \* the error of dial number k
NotConnected == [kind |-> "Connection is nil", n |-> 0]
SessErr(op)  == [kind |-> op, n |-> 0]
NoResult     == [kind |-> "pending", n |-> 0]

NoEntry == [conn |-> -1, by |-> -1]   \* no Connect call in progress

WarmUp == 10                    \* seconds RunTTYProgram waits for the shell
ZeroTime(ttl) == [by |-> 0, age |-> ttl + 1]   \* time.Time{}: long ago

Rates   == {30, 60}
Scripts == {<<>>, <<"whoami">>, <<"ls", "pwd">>}

VARIABLES
  flags,      \* the parsed command line
  perIter,    \* the build gives each loop iteration its own i (Go >= 1.22)
  mainPc, i, wg, agents,
  conn,       \* per handle: dialed?, number of Close calls on the ssh.Client
  pc, tgt, attempt, lastErr, idx, timer, sess, connErr, runErr,
  cancelled,  \* ctx.Done() is closed
  notifyCtx,  \* signal.NotifyContext still registered (stop not called)
  hPc, sigChan, signals, proc,
  dials, waits, hitAt, issued, entry,   \* history
  arg, res                       \* input and result of a pure-function run

vars == <<flags, perIter, mainPc, i, wg, agents, conn, pc, tgt, attempt, lastErr,
          idx, timer, sess, connErr, runErr, cancelled, notifyCtx, hPc, sigChan,
          signals, proc, dials, waits, hitAt, issued, entry, arg, res>>

cfgVars  == <<flags, perIter>>
mainVars == <<mainPc, i, wg>>
sigVars  == <<notifyCtx, hPc, sigChan, signals>>
funVars  == <<arg, res>>

\* The command lines followed: one agent connecting under every retry and
\* delay setting, one agent looping in each mode under every TTL, cadence and
\* script, one interactive agent whose TTL outlasts the shell warm-up,
\* MaxCount agents launched together, and the whoami scenario.
ConnectFlags ==
  [count: {1}, retries: (-1)..MaxRetriesBound, ttl: {0}, rate: {60},
   tty: {FALSE}, script: {<<>>}, randomMax: {0, MaxRandom}]

LoopFlags ==
  [count: {1}, retries: {0}, ttl: 0..MaxTTL, rate: Rates,
   tty: BOOLEAN, script: Scripts, randomMax: {0}]

TtyFlags ==
  [count: {1}, retries: {0}, ttl: {WarmUp}, rate: Rates,
   tty: {TRUE}, script: Scripts, randomMax: {0}]

MobFlags ==
  [count: {MaxCount}, retries: {0}, ttl: {MaxTTL}, rate: {60},
   tty: {FALSE}, script: {<<>>}, randomMax: {0}]

\* one agent at the default cadence of 6 commands a minute, a script of one
\* command and a TTL between the first and the second cadence wait
ScenarioFlags ==
  [count: {1}, retries: {0}, ttl: {15}, rate: {6},
   tty: {FALSE}, script: {<<"whoami">>}, randomMax: {0}]

Flags == ConnectFlags \cup LoopFlags \cup TtyFlags \cup MobFlags \cup ScenarioFlags

\* State of the process when main starts launching agents (main.go:86-100,
\* with the context of the signal design in place), but for proc, arg and res.
Boot(f, p) ==
  /\ flags = f
  /\ perIter = p
  /\ mainPc = IF f.count > 0 THEN "launch" ELSE "wait"
  /\ i = 0
  /\ wg = 0
  /\ agents = [k \in G |-> NilAgent]
  /\ conn = [h \in Handles |-> [dialed |-> FALSE, closes |-> 0]]
  /\ pc = [g \in G |-> "idle"]
  /\ tgt = [g \in G |-> g]
  /\ attempt = [g \in G |-> 0]
  /\ lastErr = [g \in G |-> NoErr]
  /\ idx = [g \in G |-> 0]
  /\ timer = [g \in G |-> 0]
  /\ sess = [g \in G |-> 0]
  /\ connErr = [g \in G |-> NoResult]
  /\ runErr = [g \in G |-> NoResult]
  /\ cancelled = FALSE
  /\ notifyCtx = TRUE
  /\ hPc = "waitDone"
  /\ sigChan = 0
  /\ signals = 0
  /\ dials = [g \in G |-> 0]
  /\ waits = [g \in G |-> <<>>]
  /\ hitAt = [g \in G |-> "none"]
  /\ issued = [g \in G |-> <<>>]
  /\ entry = [g \in G |-> NoEntry]

Start(f, p) ==
  /\ Boot(f, p)
  /\ proc = "running"
  /\ arg = <<>>
  /\ res = <<>>

Init == \E f \in Flags, p \in BOOLEAN : Start(f, p)

Running == proc = "running"


\* ---------------------------------------------------------------- helpers
Min(a, b) == IF a < b THEN a ELSE b

\* main.go:108-118 (MaxRetries from the -retries flag of the retry design)
NewAgent(delay) ==
  [UseTTY |-> flags.tty, ConnectionDelay |-> delay, ConnectionTTL |-> flags.ttl,
   CommandRate |-> flags.rate, CommandScript |-> flags.script,
   MaxRetries |-> flags.retries, Connection |-> NilConn,
   ConnectionStart |-> ZeroTime(flags.ttl)]

\* The value of i a goroutine's closure reads in agents[i] (main.go:125,128):
\* its own iteration's copy, or the variable the launch loop is still advancing.
Receiver(g) == IF perIter THEN g ELSE i

\* agents[k] panics: index out of range, or a method of a nil *Agent
BadReceiver(k) == k >= flags.count \/ agents[k] = NilAgent

\* ssh.go:287-293
AgentsAfterClose(k) == [agents EXCEPT ![k].Connection = NilConn]

ConnAfterClose(k) ==
  IF agents[k].Connection = NilConn THEN conn
  ELSE [conn EXCEPT ![agents[k].Connection].closes = Min(@ + 1, 2)]

\* more whole seconds than the TTL have passed since ConnectionStart
TTLExpired(k) == agents[k].ConnectionStart.age > agents[k].ConnectionTTL

\* ssh.go:226 / 185: ConnectionStart.Add(TTL seconds).Before(time.Now()).
\* After age ticks the time elapsed is positive and within a second of age:
\* the comparison is decided unless age = TTL > 0, where it can go either way.
TTLCheck(k) ==
  LET age == agents[k].ConnectionStart.age
      ttl == agents[k].ConnectionTTL IN
  IF age > ttl THEN {TRUE}
  ELSE IF age < ttl THEN {FALSE}
  ELSE IF ttl = 0 THEN {TRUE}
  ELSE BOOLEAN

\* the suspension points of an agent (the selects on a timer and ctx.Done())
WaitPcs == {"c_delay", "c_backoff", "s_sleep", "t_warmup", "t_sleep"}

\* the token becomes signaled: remember which wait each goroutine was in
HitNow ==
  IF cancelled THEN hitAt
  ELSE [g \in G |-> IF pc[g] \in WaitPcs THEN pc[g] ELSE "none"]

Panic ==
  /\ proc' = "panic"
  /\ UNCHANGED <<cfgVars, mainVars, agents, conn, pc, tgt, attempt, lastErr, idx,
                 timer, sess, connErr, runErr, cancelled, sigVars, dials, waits,
                 hitAt, issued, funVars>>
  /\ UNCHANGED entry

\* --------------------------------------------------------------- main.go
\* main.go:102-130: construct agents[i], wg.Add(1), go func(a){...}(agents[i])
Launch ==
  /\ Running /\ mainPc = "launch"
  /\ \E delay \in (IF flags.randomMax > 0 THEN 0..(flags.randomMax - 1) ELSE {0}) :
        agents' = [agents EXCEPT ![i] = NewAgent(delay)]
  /\ wg' = wg + 1
  /\ pc' = [pc EXCEPT ![i] = "c_call"]
  /\ mainPc' = "incr"
  /\ UNCHANGED <<cfgVars, i, conn, tgt, attempt, lastErr, idx, timer, sess, connErr,
                 runErr, cancelled, sigVars, proc, dials, waits, hitAt, issued, funVars>>
  /\ UNCHANGED entry

\* main.go:102: i++ ; i < *count
Incr ==
  /\ Running /\ mainPc = "incr"
  /\ i' = i + 1
  /\ mainPc' = IF i + 1 < flags.count THEN "launch" ELSE "wait"
  /\ UNCHANGED <<cfgVars, wg, agents, conn, pc, tgt, attempt, lastErr, idx, timer,
                 sess, connErr, runErr, cancelled, sigVars, proc, dials, waits,
                 hitAt, issued, funVars>>
  /\ UNCHANGED entry

\* faulty variant: main goes on without waiting for the counter to reach zero
JoinEarly ==
  /\ Running /\ mainPc = "wait"
  /\ mainPc' = "return"
  /\ UNCHANGED <<cfgVars, i, wg, agents, conn, pc, tgt, attempt, lastErr, idx, timer,
                 sess, connErr, runErr, cancelled, sigVars, proc, dials, waits,
                 hitAt, issued, entry, funVars>>

\* main.go:134-136: wg.Wait() returns, "All connections closed."
Join ==
  /\ Running /\ mainPc = "wait" /\ wg = 0
  /\ mainPc' = "return"
  /\ UNCHANGED <<cfgVars, i, wg, agents, conn, pc, tgt, attempt, lastErr, idx, timer,
                 sess, connErr, runErr, cancelled, sigVars, proc, dials, waits,
                 hitAt, issued, funVars>>
  /\ UNCHANGED entry

\* main.go:242: the deferred cancel() (stop) runs as main returns
Return ==
  /\ Running /\ mainPc = "return"
  /\ mainPc' = "exit"
  /\ cancelled' = TRUE
  /\ notifyCtx' = FALSE
  /\ hitAt' = HitNow
  /\ UNCHANGED <<cfgVars, i, wg, agents, conn, pc, tgt, attempt, lastErr, idx, timer,
                 sess, connErr, runErr, hPc, sigChan, signals, proc, dials, waits,
                 issued, funVars>>
  /\ UNCHANGED entry

\* main has returned: the process exits with status 0
Exit ==
  /\ Running /\ mainPc = "exit"
  /\ proc' = "exit0"
  /\ UNCHANGED <<cfgVars, mainVars, agents, conn, pc, tgt, attempt, lastErr, idx,
                 timer, sess, connErr, runErr, cancelled, sigVars, dials, waits,
                 hitAt, issued, funVars>>
  /\ UNCHANGED entry

\* ------------------------------------------------------- signal handling
\* An external SIGINT/SIGTERM reaches the process (main.go:241, 248-249):
\* NotifyContext cancels ctx on the first one; a registered sigChan (buffer 1)
\* receives it; with nothing registered the default action kills the process.
Interrupt ==
  /\ Running /\ signals < MaxSignals
  /\ signals' = signals + 1
  /\ cancelled' = (cancelled \/ notifyCtx)
  /\ hitAt' = IF notifyCtx THEN HitNow ELSE hitAt
  /\ sigChan' = IF hPc = "waitSig" THEN 1 ELSE sigChan
  /\ proc' = IF ~notifyCtx /\ hPc # "waitSig" THEN "killed" ELSE proc
  /\ UNCHANGED <<cfgVars, mainVars, agents, conn, pc, tgt, attempt, lastErr, idx,
                 timer, sess, connErr, runErr, notifyCtx, hPc, dials, waits, issued,
                 funVars>>
  /\ UNCHANGED entry

\* main.go:246-249: <-ctx.Done(); log; signal.Notify(sigChan, ...)
HandlerWake ==
  /\ Running /\ hPc = "waitDone" /\ cancelled
  /\ hPc' = "waitSig"
  /\ UNCHANGED <<cfgVars, mainVars, agents, conn, pc, tgt, attempt, lastErr, idx,
                 timer, sess, connErr, runErr, cancelled, notifyCtx, sigChan, signals,
                 proc, dials, waits, hitAt, issued, funVars>>
  /\ UNCHANGED entry

\* main.go:250-252: <-sigChan; log; os.Exit(1)
HandlerExit ==
  /\ Running /\ hPc = "waitSig" /\ sigChan = 1
  /\ proc' = "exit1"
  /\ sigChan' = 0
  /\ UNCHANGED <<cfgVars, mainVars, agents, conn, pc, tgt, attempt, lastErr, idx,
                 timer, sess, connErr, runErr, cancelled, notifyCtx, hPc, signals,
                 dials, waits, hitAt, issued, funVars>>
  /\ UNCHANGED entry

\* ------------------------------------------------------------------ time
\* One second passes: pending timers near, recorded instants age.
Tick ==
  /\ Running
  /\ \/ \E g \in G : timer[g] > 0
     \/ \E k \in G : agents[k] # NilAgent /\ ~TTLExpired(k)
  /\ timer' = [g \in G |-> IF timer[g] > 0 THEN timer[g] - 1 ELSE 0]
  /\ agents' = [k \in G |->
        IF agents[k] = NilAgent THEN NilAgent
        ELSE [agents[k] EXCEPT
               !.ConnectionStart.age = Min(@ + 1, agents[k].ConnectionTTL + 1)]]
  /\ UNCHANGED <<cfgVars, mainVars, conn, pc, tgt, attempt, lastErr, idx, sess,
                 connErr, runErr, cancelled, sigVars, proc, dials, waits, hitAt,
                 issued, funVars>>
  /\ UNCHANGED entry


\* ------------------------------------------------------- ssh.go: Connect
\* what no agent goroutine step touches
outerVars == <<cfgVars, mainPc, i, cancelled, sigVars, hitAt, funVars>>

\* Connect returns err to main.go:125, which goes on to call RunProgram
ConnectReturn(g, err) ==
  /\ connErr' = [connErr EXCEPT ![g] = err]
  /\ pc' = [pc EXCEPT ![g] = "r_call"]
  /\ timer' = [timer EXCEPT ![g] = 0]

\* ssh.go:54: attempt < maxAttempts, else ssh.go:85-86 return lastErr
\* faulty variant: the loop bound without the "+ 1": MaxRetries attempts in all
LoopTestShort(g, k, att, lerr) ==
  /\ attempt' = [attempt EXCEPT ![g] = att]
  /\ lastErr' = [lastErr EXCEPT ![g] = lerr]
  /\ IF att < agents[k].MaxRetries
       THEN /\ pc' = [pc EXCEPT ![g] = "c_check"]
            /\ timer' = [timer EXCEPT ![g] = 0]
            /\ connErr' = connErr
       ELSE ConnectReturn(g, lerr)

LoopTest(g, k, att, lerr) ==
  /\ attempt' = [attempt EXCEPT ![g] = att]
  /\ lastErr' = [lastErr EXCEPT ![g] = lerr]
  /\ IF att < agents[k].MaxRetries + 1
       THEN /\ pc' = [pc EXCEPT ![g] = "c_check"]
            /\ timer' = [timer EXCEPT ![g] = 0]
            /\ connErr' = connErr
       ELSE ConnectReturn(g, lerr)

\* main.go:125 agents[i].Connect(ctx), ssh.go:29-41 and 51-54
ConnectCall(g) ==
  /\ Running /\ pc[g] = "c_call"
  /\ LET k == Receiver(g) IN
     IF BadReceiver(k) THEN Panic
     ELSE /\ tgt' = [tgt EXCEPT ![g] = k]
          /\ entry' = [entry EXCEPT ![g] = [conn |-> agents[k].Connection,
                                            by |-> agents[k].ConnectionStart.by]]
          /\ IF agents[k].Connection # NilConn
               THEN /\ ConnectReturn(g, NoErr)
                    /\ UNCHANGED <<attempt, lastErr>>
             ELSE IF agents[k].ConnectionDelay > 0
               THEN /\ timer' = [timer EXCEPT ![g] = agents[k].ConnectionDelay]
                    /\ pc' = [pc EXCEPT ![g] = "c_delay"]
                    /\ UNCHANGED <<attempt, lastErr, connErr>>
             ELSE LoopTest(g, k, 0, NoErr)
          /\ UNCHANGED <<outerVars, wg, agents, conn, idx, sess, runErr, proc, dials,
                         waits, issued>>

\* ssh.go:36-37: the pre-connect delay elapsed
ConnectDelayTimer(g) ==
  /\ Running /\ pc[g] = "c_delay" /\ timer[g] = 0
  /\ LoopTest(g, tgt[g], 0, NoErr)
  /\ UNCHANGED <<outerVars, wg, agents, conn, tgt, idx, sess, runErr, proc, dials,
                 waits, issued>>
  /\ UNCHANGED entry

\* ssh.go:38-39: ctx.Done() during the pre-connect delay
ConnectDelayCancel(g) ==
  /\ Running /\ pc[g] = "c_delay" /\ cancelled
  /\ ConnectReturn(g, Canceled)
  /\ UNCHANGED <<outerVars, wg, agents, conn, tgt, attempt, lastErr, idx, sess,
                 runErr, proc, dials, waits, issued>>
  /\ UNCHANGED entry

\* ssh.go:56-60: the cancellation check before each attempt
\* faulty variant: no look at ctx.Done() before the attempt
ConnectCheckBlind(g) ==
  /\ Running /\ pc[g] = "c_check"
  /\ pc' = [pc EXCEPT ![g] = "c_dial"]
  /\ UNCHANGED <<outerVars, wg, agents, conn, tgt, attempt, lastErr, idx, timer, sess,
                 connErr, runErr, proc, dials, waits, issued, entry>>

ConnectCheck(g) ==
  /\ Running /\ pc[g] = "c_check"
  /\ IF cancelled
       THEN ConnectReturn(g, Canceled)
       ELSE /\ pc' = [pc EXCEPT ![g] = "c_dial"]
            /\ UNCHANGED <<timer, connErr>>
  /\ UNCHANGED <<outerVars, wg, agents, conn, tgt, attempt, lastErr, idx, sess,
                 runErr, proc, dials, waits, issued>>
  /\ UNCHANGED entry

\* faulty variant: ConnectionStart is stamped before the error of the dial
\* is looked at
ConnectDialStamps(g) ==
  /\ Running /\ pc[g] = "c_dial"
  /\ dials' = [dials EXCEPT ![g] = @ + 1]
  /\ \E ok \in BOOLEAN :
       IF ok
         THEN /\ agents' = [agents EXCEPT
                    ![tgt[g]].ConnectionStart = [by |-> g + 1, age |-> 0],
                    ![tgt[g]].Connection = g + 1]
              /\ conn' = [conn EXCEPT ![g + 1].dialed = TRUE]
              /\ ConnectReturn(g, NoErr)
              /\ UNCHANGED <<attempt, lastErr>>
         ELSE /\ agents' = [agents EXCEPT
                    ![tgt[g]].ConnectionStart = [by |-> g + 1, age |-> 0]]
              /\ conn' = conn
              /\ IF attempt[g] < (agents[tgt[g]].MaxRetries + 1) - 1
                   THEN /\ lastErr' = [lastErr EXCEPT ![g] = DialErr(dials[g] + 1)]
                        /\ timer' = [timer EXCEPT
                              ![g] = TimerSeconds(getBackoffDuration(attempt[g]))]
                        /\ pc' = [pc EXCEPT ![g] = "c_backoff"]
                        /\ UNCHANGED <<attempt, connErr>>
                   ELSE LoopTest(g, tgt[g], attempt[g] + 1, DialErr(dials[g] + 1))
  /\ UNCHANGED <<outerVars, wg, tgt, idx, sess, runErr, proc, waits, issued, entry>>

\* ssh.go:62-82: ssh.Dial and what follows it, up to the backoff select
ConnectDial(g) ==
  /\ Running /\ pc[g] = "c_dial"
  /\ dials' = [dials EXCEPT ![g] = @ + 1]
  /\ \E ok \in BOOLEAN :
       IF ok
         THEN /\ agents' = [agents EXCEPT
                    ![tgt[g]].ConnectionStart = [by |-> g + 1, age |-> 0],
                    ![tgt[g]].Connection = g + 1]
              /\ conn' = [conn EXCEPT ![g + 1].dialed = TRUE]
              /\ ConnectReturn(g, NoErr)
              /\ UNCHANGED <<attempt, lastErr>>
         ELSE /\ UNCHANGED <<agents, conn>>
              /\ IF attempt[g] < (agents[tgt[g]].MaxRetries + 1) - 1
                   THEN /\ lastErr' = [lastErr EXCEPT ![g] = DialErr(dials[g] + 1)]
                        /\ timer' = [timer EXCEPT
                              ![g] = TimerSeconds(getBackoffDuration(attempt[g]))]
                        /\ pc' = [pc EXCEPT ![g] = "c_backoff"]
                        /\ UNCHANGED <<attempt, connErr>>
                   ELSE LoopTest(g, tgt[g], attempt[g] + 1, DialErr(dials[g] + 1))
  /\ UNCHANGED <<outerVars, wg, tgt, idx, sess, runErr, proc, waits, issued>>
  /\ UNCHANGED entry

\* ssh.go:78: the backoff elapsed; attempt++.  waits records the seconds the
\* wait is known to have lasted: what was asked for less what was still left.
ConnectBackoffTimer(g) ==
  /\ Running /\ pc[g] = "c_backoff" /\ timer[g] = 0
  /\ LoopTest(g, tgt[g], attempt[g] + 1, lastErr[g])
  /\ waits' = [waits EXCEPT
        ![g] = Append(@, TimerSeconds(getBackoffDuration(attempt[g])) - timer[g])]
  /\ UNCHANGED <<outerVars, wg, agents, conn, tgt, idx, sess, runErr, proc, dials,
                 issued>>
  /\ UNCHANGED entry

\* ssh.go:79-80: ctx.Done() during the backoff
ConnectBackoffCancel(g) ==
  /\ Running /\ pc[g] = "c_backoff" /\ cancelled
  /\ ConnectReturn(g, Canceled)
  /\ UNCHANGED <<outerVars, wg, agents, conn, tgt, attempt, lastErr, idx, sess,
                 runErr, proc, dials, waits, issued>>
  /\ UNCHANGED entry


\* --------------------------------------------- ssh.go: the command loops
\* RunProgram returns err to main.go:128, which goes on to a.Close()
RunReturn(g, err) ==
  /\ runErr' = [runErr EXCEPT ![g] = err]
  /\ pc' = [pc EXCEPT ![g] = "close"]
  /\ timer' = [timer EXCEPT ![g] = 0]
  \* ssh.go:116: interactive mode defers sess.Close(); standard mode has no
  \* deferred close
  /\ sess' = [sess EXCEPT ![g] = IF flags.tty THEN 0 ELSE @]

\* ssh.go:244-246, 253-255, 126-127, ...: the failure err of a session call is
\* followed by (sess.Close() and) a.Close() before the loop returns err
FailAndClose(g, err) ==
  /\ runErr' = [runErr EXCEPT ![g] = err]
  /\ pc' = [pc EXCEPT ![g] = "x_close"]
  /\ timer' = [timer EXCEPT ![g] = 0]
  \* ssh.go:244, 253: sess.Close() (interactive mode: the deferred one)
  /\ sess' = [sess EXCEPT ![g] = IF flags.tty THEN 0 ELSE @ - 1]

\* a.Connection.NewSession() panics on a nil client (another goroutine closed it)
NilClient(g) == agents[tgt[g]].Connection = NilConn

\* a client that was closed opens no session
ClientClosed(g) == conn[agents[tgt[g]].Connection].closes > 0

\* faulty variant: the loops are entered without the nil test of a.Connection
RunCallNoCheck(g) ==
  /\ Running /\ pc[g] = "r_call"
  /\ LET k == Receiver(g) IN
     IF BadReceiver(k) THEN Panic
     ELSE /\ tgt' = [tgt EXCEPT ![g] = k]
          /\ idx' = [idx EXCEPT ![g] = 0]
          /\ pc' = [pc EXCEPT
                ![g] = IF agents[k].UseTTY THEN "t_newsess" ELSE "s_top"]
          /\ UNCHANGED <<runErr, timer, sess>>
          /\ attempt' = [attempt EXCEPT ![g] = 0]
          /\ lastErr' = [lastErr EXCEPT ![g] = NoErr]
          /\ dials' = [dials EXCEPT ![g] = 0]
          /\ waits' = [waits EXCEPT ![g] = <<>>]
          /\ entry' = [entry EXCEPT ![g] = NoEntry]
          /\ UNCHANGED <<outerVars, wg, agents, conn, connErr, proc, issued>>

\* main.go:128 agents[i].RunProgram(ctx), ssh.go:98-109 and 211-216
RunCall(g) ==
  /\ Running /\ pc[g] = "r_call"
  /\ LET k == Receiver(g) IN
     IF BadReceiver(k) THEN Panic
     ELSE /\ tgt' = [tgt EXCEPT ![g] = k]
          /\ IF agents[k].Connection = NilConn
               THEN /\ RunReturn(g, NotConnected)
                    /\ idx' = idx
               ELSE /\ idx' = [idx EXCEPT ![g] = 0]
                    /\ pc' = [pc EXCEPT
                          ![g] = IF agents[k].UseTTY THEN "t_newsess" ELSE "s_top"]
                    /\ UNCHANGED <<runErr, timer, sess>>
          /\ attempt' = [attempt EXCEPT ![g] = 0]
          /\ lastErr' = [lastErr EXCEPT ![g] = NoErr]
          /\ dials' = [dials EXCEPT ![g] = 0]
          /\ waits' = [waits EXCEPT ![g] = <<>>]
          /\ entry' = [entry EXCEPT ![g] = NoEntry]
          /\ UNCHANGED <<outerVars, wg, agents, conn, connErr, proc, issued>>

\* faulty variant: the cycle starts with the TTL check alone
StdTopBlind(g) ==
  /\ Running /\ pc[g] = "s_top"
  /\ \E expired \in TTLCheck(tgt[g]) :
     IF expired
       THEN RunReturn(g, NoErr)
       ELSE /\ pc' = [pc EXCEPT ![g] = "s_newsess"]
            /\ UNCHANGED <<runErr, timer, sess>>
  /\ UNCHANGED <<outerVars, wg, agents, conn, tgt, attempt, lastErr, idx, connErr,
                 proc, dials, waits, issued, entry>>

\* faulty variant: the cycle starts with the cancellation check alone
StdTopNoTTL(g) ==
  /\ Running /\ pc[g] = "s_top"
  /\ IF cancelled
       THEN RunReturn(g, NoErr)
       ELSE /\ pc' = [pc EXCEPT ![g] = "s_newsess"]
            /\ UNCHANGED <<runErr, timer, sess>>
  /\ UNCHANGED <<outerVars, wg, agents, conn, tgt, attempt, lastErr, idx, connErr,
                 proc, dials, waits, issued, entry>>

\* ssh.go:218-231: cancellation check, TTL check, getCommand
StdTop(g) ==
  /\ Running /\ pc[g] = "s_top"
  /\ \E expired \in TTLCheck(tgt[g]) :
     IF cancelled \/ expired
       THEN RunReturn(g, NoErr)
       ELSE /\ pc' = [pc EXCEPT ![g] = "s_newsess"]
            /\ UNCHANGED <<runErr, timer, sess>>
  /\ UNCHANGED <<outerVars, wg, agents, conn, tgt, attempt, lastErr, idx, connErr,
                 proc, dials, waits, issued>>
  /\ UNCHANGED entry

\* ssh.go:233-236
StdNewSession(g) ==
  /\ Running /\ pc[g] = "s_newsess"
  /\ IF NilClient(g) THEN Panic
     ELSE /\ \E ok \in (IF ClientClosed(g) THEN {FALSE} ELSE BOOLEAN) :
               IF ok
                 THEN /\ sess' = [sess EXCEPT ![g] = @ + 1]
                      /\ pc' = [pc EXCEPT ![g] = "s_pty"]
                      /\ UNCHANGED <<runErr, timer>>
                 ELSE RunReturn(g, SessErr("NewSession"))
          /\ UNCHANGED <<outerVars, wg, agents, conn, tgt, attempt, lastErr, idx,
                         connErr, proc, dials, waits, issued,
                         entry>>

\* ssh.go:243-247
StdRequestPty(g) ==
  /\ Running /\ pc[g] = "s_pty"
  /\ \E ok \in BOOLEAN :
       IF ok
         THEN /\ pc' = [pc EXCEPT ![g] = "s_output"]
              /\ UNCHANGED <<runErr, timer, sess, agents, conn>>
         ELSE /\ FailAndClose(g, SessErr("RequestPty"))
              /\ UNCHANGED <<agents, conn>>
  /\ UNCHANGED <<outerVars, wg, tgt, attempt, lastErr, idx, connErr, proc, dials,
                 waits, issued>>
  /\ UNCHANGED entry

\* faulty variant: the session stays open after a successful Output
StdOutputKeepsSession(g) ==
  /\ Running /\ pc[g] = "s_output"
  /\ issued' = [issued EXCEPT
        ![g] = Append(@, <<idx[g], getCommand(agents[tgt[g]].CommandScript, idx[g])>>)]
  /\ \E ok \in BOOLEAN :
       IF ok
         THEN /\ sess' = sess
              /\ timer' = [timer EXCEPT
                    ![g] = getSleepDuration(agents[tgt[g]].CommandRate)]
              /\ pc' = [pc EXCEPT ![g] = "s_sleep"]
              /\ UNCHANGED <<runErr, agents, conn>>
         ELSE /\ FailAndClose(g, SessErr("Output"))
              /\ UNCHANGED <<agents, conn>>
  /\ UNCHANGED <<outerVars, wg, tgt, attempt, lastErr, idx, connErr, proc, dials,
                 waits, entry>>

\* ssh.go:249-263: sess.Output(command), sess.Close(), then the cadence wait
StdOutput(g) ==
  /\ Running /\ pc[g] = "s_output"
  /\ issued' = [issued EXCEPT
        ![g] = Append(@, <<idx[g], getCommand(agents[tgt[g]].CommandScript, idx[g])>>)]
  /\ \E ok \in BOOLEAN :
       IF ok
         THEN /\ sess' = [sess EXCEPT ![g] = @ - 1]
              /\ timer' = [timer EXCEPT
                    ![g] = getSleepDuration(agents[tgt[g]].CommandRate)]
              /\ pc' = [pc EXCEPT ![g] = "s_sleep"]
              /\ UNCHANGED <<runErr, agents, conn>>
         ELSE /\ FailAndClose(g, SessErr("Output"))
              /\ UNCHANGED <<agents, conn>>
  /\ UNCHANGED <<outerVars, wg, tgt, attempt, lastErr, idx, connErr, proc, dials,
                 waits>>
  /\ UNCHANGED entry

\* ssh.go:263, 267: the cadence wait elapsed; idx++
StdSleepTimer(g) ==
  /\ Running /\ pc[g] = "s_sleep" /\ timer[g] = 0 /\ idx[g] < MaxIdx
  /\ idx' = [idx EXCEPT ![g] = @ + 1]
  /\ pc' = [pc EXCEPT ![g] = "s_top"]
  /\ UNCHANGED <<outerVars, wg, agents, conn, tgt, attempt, lastErr, timer, sess,
                 connErr, runErr, proc, dials, waits, issued>>
  /\ UNCHANGED entry

\* ssh.go:264-265: ctx.Done() during the cadence wait
StdSleepCancel(g) ==
  /\ Running /\ pc[g] = "s_sleep" /\ cancelled
  /\ RunReturn(g, NoErr)
  /\ UNCHANGED <<outerVars, wg, agents, conn, tgt, attempt, lastErr, idx, connErr,
                 proc, dials, waits, issued>>
  /\ UNCHANGED entry

\* ssh.go:111-116: the one session of the interactive mode
TtyNewSession(g) ==
  /\ Running /\ pc[g] = "t_newsess"
  /\ IF NilClient(g) THEN Panic
     ELSE /\ \E ok \in (IF ClientClosed(g) THEN {FALSE} ELSE BOOLEAN) :
               IF ok
                 THEN /\ sess' = [sess EXCEPT ![g] = @ + 1]
                      /\ pc' = [pc EXCEPT ![g] = "t_pty"]
                      /\ UNCHANGED <<runErr, timer>>
                 ELSE RunReturn(g, SessErr("NewSession"))
          /\ UNCHANGED <<outerVars, wg, agents, conn, tgt, attempt, lastErr, idx,
                         connErr, proc, dials, waits, issued,
                         entry>>

\* the setup calls of ssh.go:125-166, in order, and what follows the last
TtySetupNext ==
  [t_pty |-> "t_stdin", t_stdin |-> "t_stdout", t_stdout |-> "t_stderr",
   t_stderr |-> "t_shell", t_shell |-> "t_warmup"]

TtySetupName ==
  [t_pty |-> "RequestPty", t_stdin |-> "StdinPipe", t_stdout |-> "StdoutPipe",
   t_stderr |-> "StderrPipe", t_shell |-> "Shell"]

\* ssh.go:125-170: RequestPty, StdinPipe, StdoutPipe, StderrPipe, Shell; each
\* failure does a.Close() and returns; after Shell the warm-up wait begins
TtySetup(g) ==
  /\ Running /\ pc[g] \in DOMAIN TtySetupNext
  /\ \E ok \in BOOLEAN :
       IF ok
         THEN /\ pc' = [pc EXCEPT ![g] = TtySetupNext[pc[g]]]
              /\ timer' = [timer EXCEPT ![g] = IF pc[g] = "t_shell" THEN WarmUp ELSE 0]
              /\ UNCHANGED <<runErr, sess, agents, conn>>
         ELSE /\ FailAndClose(g, SessErr(TtySetupName[pc[g]]))
              /\ UNCHANGED <<agents, conn>>
  /\ UNCHANGED <<outerVars, wg, tgt, attempt, lastErr, idx, connErr, proc, dials,
                 waits, issued>>
  /\ UNCHANGED entry

\* ssh.go:170, 175: the warm-up elapsed; idx := 0
TtyWarmupTimer(g) ==
  /\ Running /\ pc[g] = "t_warmup" /\ timer[g] = 0
  /\ idx' = [idx EXCEPT ![g] = 0]
  /\ pc' = [pc EXCEPT ![g] = "t_top"]
  /\ UNCHANGED <<outerVars, wg, agents, conn, tgt, attempt, lastErr, timer, sess,
                 connErr, runErr, proc, dials, waits, issued>>
  /\ UNCHANGED entry

\* ssh.go:171-172: ctx.Done() during the warm-up: return ctx.Err()
TtyWarmupCancel(g) ==
  /\ Running /\ pc[g] = "t_warmup" /\ cancelled
  /\ RunReturn(g, Canceled)
  /\ UNCHANGED <<outerVars, wg, agents, conn, tgt, attempt, lastErr, idx, connErr,
                 proc, dials, waits, issued>>
  /\ UNCHANGED entry

\* ssh.go:177-190: cancellation check, TTL check, getCommand
TtyTop(g) ==
  /\ Running /\ pc[g] = "t_top"
  /\ \E expired \in TTLCheck(tgt[g]) :
     IF cancelled \/ expired
       THEN RunReturn(g, NoErr)
       ELSE /\ pc' = [pc EXCEPT ![g] = "t_write"]
            /\ UNCHANGED <<runErr, timer, sess>>
  /\ UNCHANGED <<outerVars, wg, agents, conn, tgt, attempt, lastErr, idx, connErr,
                 proc, dials, waits, issued>>
  /\ UNCHANGED entry

\* ssh.go:192-203: stdin.Write(command + "\r"), then the cadence wait
TtyWrite(g) ==
  /\ Running /\ pc[g] = "t_write"
  /\ issued' = [issued EXCEPT
        ![g] = Append(@, <<idx[g], getCommand(agents[tgt[g]].CommandScript, idx[g])>>)]
  /\ \E ok \in BOOLEAN :
       IF ok
         THEN /\ timer' = [timer EXCEPT
                    ![g] = getSleepDuration(agents[tgt[g]].CommandRate)]
              /\ pc' = [pc EXCEPT ![g] = "t_sleep"]
              /\ UNCHANGED <<runErr, sess>>
         ELSE RunReturn(g, SessErr("Write"))
  /\ UNCHANGED <<outerVars, wg, agents, conn, tgt, attempt, lastErr, idx, connErr,
                 proc, dials, waits>>
  /\ UNCHANGED entry

\* ssh.go:203, 207
TtySleepTimer(g) ==
  /\ Running /\ pc[g] = "t_sleep" /\ timer[g] = 0 /\ idx[g] < MaxIdx
  /\ idx' = [idx EXCEPT ![g] = @ + 1]
  /\ pc' = [pc EXCEPT ![g] = "t_top"]
  /\ UNCHANGED <<outerVars, wg, agents, conn, tgt, attempt, lastErr, timer, sess,
                 connErr, runErr, proc, dials, waits, issued>>
  /\ UNCHANGED entry

\* ssh.go:204-205
TtySleepCancel(g) ==
  /\ Running /\ pc[g] = "t_sleep" /\ cancelled
  /\ RunReturn(g, NoErr)
  /\ UNCHANGED <<outerVars, wg, agents, conn, tgt, attempt, lastErr, idx, connErr,
                 proc, dials, waits, issued>>
  /\ UNCHANGED entry

\* ------------------------------------------------------- ssh.go: Close
\* a.Close() is called by the goroutine on its own argument (main.go:129) and
\* by the command loops on their receiver (pcs "x_...")
LoopClosePcs == {"x_close", "x_call", "x_clear"}

CloseTarget(g) == IF pc[g] \in LoopClosePcs THEN tgt[g] ELSE g

\* what follows a.Close(): in a command loop the return of the error to
\* main.go:128, in the goroutine the deferred wg.Done() of main.go:124
AfterClose(g) ==
  IF pc[g] \in LoopClosePcs
    THEN /\ pc' = [pc EXCEPT ![g] = "close"]
         /\ wg' = wg
    ELSE /\ pc' = [pc EXCEPT ![g] = "done"]
         /\ wg' = wg - 1

\* ssh.go:287-293.  An agent that only its own goroutine uses is closed in
\* one step; when the goroutines reach agents through the shared loop
\* variable the test, the call and the assignment are steps of their own.
Close(g) ==
  /\ Running /\ pc[g] \in {"close", "x_close"}
  /\ LET k == CloseTarget(g) IN
     IF perIter
       THEN /\ agents' = AgentsAfterClose(k)
            /\ conn' = ConnAfterClose(k)
            /\ AfterClose(g)
     ELSE IF agents[k].Connection = NilConn
       THEN /\ AfterClose(g)
            /\ UNCHANGED <<agents, conn>>
     ELSE /\ pc' = [pc EXCEPT ![g] = IF pc[g] = "close" THEN "close_call" ELSE "x_call"]
          /\ UNCHANGED <<agents, conn, wg>>
  /\ UNCHANGED <<outerVars, tgt, attempt, lastErr, idx, timer, sess, connErr, runErr,
                 proc, dials, waits, issued, entry>>

\* ssh.go:290: a.Connection.Close(), on what a.Connection holds by now
CloseCall(g) ==
  /\ Running /\ pc[g] \in {"close_call", "x_call"}
  /\ LET k == CloseTarget(g) IN
     IF agents[k].Connection = NilConn THEN Panic
     ELSE /\ conn' = ConnAfterClose(k)
          /\ pc' = [pc EXCEPT ![g] = IF pc[g] = "close_call" THEN "close_clear" ELSE "x_clear"]
          /\ UNCHANGED <<outerVars, wg, agents, tgt, attempt, lastErr, idx, timer, sess,
                         connErr, runErr, proc, dials, waits, issued, entry>>

\* ssh.go:291: a.Connection = nil
CloseClear(g) ==
  /\ Running /\ pc[g] \in {"close_clear", "x_clear"}
  /\ agents' = AgentsAfterClose(CloseTarget(g))
  /\ AfterClose(g)
  /\ UNCHANGED <<outerVars, conn, tgt, attempt, lastErr, idx, timer, sess, connErr,
                 runErr, proc, dials, waits, issued, entry>>

\* --------------------------------------------------------- specification
Step(g) ==
  \/ ConnectCall(g) \/ ConnectDelayTimer(g) \/ ConnectDelayCancel(g)
  \/ ConnectCheck(g) \/ ConnectDial(g)
  \/ ConnectBackoffTimer(g) \/ ConnectBackoffCancel(g)
  \/ RunCall(g)
  \/ StdTop(g) \/ StdNewSession(g) \/ StdRequestPty(g) \/ StdOutput(g)
  \/ StdSleepTimer(g) \/ StdSleepCancel(g)
  \/ TtyNewSession(g) \/ TtySetup(g) \/ TtyWarmupTimer(g) \/ TtyWarmupCancel(g)
  \/ TtyTop(g) \/ TtyWrite(g) \/ TtySleepTimer(g) \/ TtySleepCancel(g)
  \/ Close(g) \/ CloseCall(g) \/ CloseClear(g)

Next ==
  \/ Launch \/ Incr \/ Join \/ Return \/ Exit
  \/ Interrupt \/ HandlerWake \/ HandlerExit
  \/ Tick
  \/ \E g \in G : Step(g)

Spec == Init /\ [][Next]_vars

\* Scheduling: time advances, and main, the signal handler and every agent
\* goroutine each take their next step when one stays possible (the library
\* calls return, the runtime schedules every runnable goroutine).  Nothing
\* obliges an interrupt to arrive.
MainStep == Launch \/ Incr \/ Join \/ Return \/ Exit

HandlerStep == HandlerWake \/ HandlerExit

Fairness ==
  /\ WF_vars(Tick)
  /\ WF_vars(MainStep)
  /\ WF_vars(HandlerStep)
  /\ \A g \in G : WF_vars(Step(g))

FairSpec == Spec /\ Fairness


\* ------------------------------------------- the pure functions, run alone
\* A single call of one function of ssh.go on an agent that is not running:
\* arg is the call, res its result once it has returned.
mobVars == <<flags, perIter, mainPc, i, wg, agents, conn, pc, tgt, attempt, lastErr,
             idx, timer, sess, connErr, runErr, cancelled, notifyCtx, hPc, sigChan,
             signals, proc, dials, waits, hitAt, issued, entry>>

Cmds == {"ls", "pwd", "whoami"}

ScriptsUpTo(n) == UNION {[1..l -> Cmds] : l \in 0..n}

Parked ==
  /\ Boot(CHOOSE f \in ConnectFlags : f.retries = 0 /\ f.randomMax = 0, TRUE)
  /\ proc = "call"
  /\ res = <<>>

InitBackoff ==
  /\ Parked
  /\ arg \in {<<"getBackoffDuration", a>> : a \in 0..MaxAttemptIdx}

CallBackoff ==
  /\ proc = "call" /\ arg[1] = "getBackoffDuration" /\ res = <<>>
  /\ res' = <<getBackoffDuration(arg[2])>>
  /\ UNCHANGED <<mobVars, arg>>

SpecBackoff == InitBackoff /\ [][CallBackoff]_vars

InitCommand ==
  /\ Parked
  /\ arg \in {<<"getCommand", sc, n>> : sc \in ScriptsUpTo(MaxScriptLen), n \in 0..MaxCmdIdx}

CallCommand ==
  /\ proc = "call" /\ arg[1] = "getCommand" /\ res = <<>>
  /\ res' = <<getCommand(arg[2], arg[3])>>
  /\ UNCHANGED <<mobVars, arg>>

SpecCommand == InitCommand /\ [][CallCommand]_vars

\* ================================================================ claims

\* min(2^a, 16), the delay in seconds the design gives attempt a
DesignDelay(a) == IF a >= 4 THEN 16 ELSE 2 ^ a

\* the pcs from which the next step of a goroutine starts a network operation
NetPcs ==
  {"c_dial", "s_newsess", "s_pty", "s_output", "t_newsess", "t_pty", "t_stdin",
   "t_stdout", "t_stderr", "t_shell", "t_write"}

\* Connect has returned to goroutine g, which has not yet gone on
Returned(g) == pc[g] = "r_call"

C2_DialOnlyUnsignaled ==
  [][\A g \in G : (pc[g] = "c_dial" /\ pc'[g] # "c_dial") => ~cancelled]_vars

\* C2, amended: once the token is signaled no cancellation check lets an
\* attempt through, so the only dial that can start after the signal is one
\* whose check had passed before it.
C2_NoCheckPassesAfterSignal ==
  [][\A g \in G : (cancelled /\ pc'[g] = "c_dial") => pc[g] = "c_dial"]_vars

\* C2 witness: the token was signaled before an attempt's check, and Connect
\* returned the context error without having dialed
C2_Witness ==
  \E g \in G :
    /\ Returned(g) /\ cancelled /\ connErr[g] = Canceled
    /\ hitAt[g] = "none" /\ dials[g] = 0

\* C3: when the token is signaled while Connect is in its pre-connect delay or
\* in a backoff wait, Connect starts no dial afterwards and returns the
\* context error, never having set a connection handle.
C3_CancelInConnectWait ==
  \A g \in G :
    hitAt[g] \in {"c_delay", "c_backoff"}
    => /\ pc[g] # "c_dial"
       /\ Returned(g) => (connErr[g] = Canceled /\ ~conn[g + 1].dialed)

\* RunProgram has returned to goroutine g
RunReturned(g) == pc[g] \in {"close", "close_call", "close_clear", "done"}

\* the result of a goroutine's RunProgram call counts as a graceful stop
Graceful(g) == runErr[g] = NoErr

C5_NoLeakAfterTermination ==
  \A g \in G :
    pc[g] = "done"
    => /\ agents[g].Connection = NilConn
       /\ conn[g + 1].dialed => conn[g + 1].closes >= 1

\* every launched agent's goroutine has terminated
AllDone == \A g \in 0..(flags.count - 1) : pc[g] = "done"

\* C6: main passes the join (and so reports all connections closed and exits
\* normally) only when every one of the count agents has terminated.
C6_JoinAfterAllDone ==
  (proc # "call" /\ (mainPc \in {"return", "exit"} \/ proc = "exit0")) => AllDone

\* C6 witness: a run of MaxCount agents has exited normally
C6_Witness ==
  proc = "exit0" /\ flags.count = MaxCount /\ AllDone

\* C7: under fair scheduling every agent eventually terminates and the run
\* eventually completes normally, unless a forced exit (the second interrupt,
\* or an interrupt after the handlers are gone) ends the process first.
C7_RunCompletes ==
  <>(proc \in {"exit1", "killed"} \/ (proc = "exit0" /\ AllDone))

\* C8: while main is still running its agents, the second external interrupt
\* is the one that forces the exit: it is delivered to the handler goroutine's
\* sigChan, whose receive is followed by os.Exit(1).
C8_SecondInterruptForcesExit ==
  [][(Running /\ notifyCtx /\ signals = 1 /\ signals' = 2) => sigChan' = 1]_vars

\* C9: for every attempt index a >= 0, getBackoffDuration(a), computed in
\* signed 64-bit nanoseconds, is min(2^a, 16) seconds (so it never decreases
\* and never exceeds 16 seconds).
C9_BackoffIsMinPow2 ==
  (proc = "call" /\ arg[1] = "getBackoffDuration" /\ res # <<>>)
    => res[1] = Seconds64(DesignDelay(arg[2]))

\* C10: getCommand(i) on a script of length L >= 1 is the i-th entry for
\* 0 <= i < L and the empty string for i >= L; with no script it is the same
\* fixed default command for every i.
C10_CommandAt ==
  (proc = "call" /\ arg[1] = "getCommand" /\ res # <<>>)
    => LET sc == arg[2]
           n == arg[3] IN
       /\ (Len(sc) >= 1 /\ n < Len(sc)) => res[1] = sc[n + 1]
       /\ (Len(sc) >= 1 /\ n >= Len(sc)) => res[1] = ""
       /\ Len(sc) = 0 => res[1] = DefaultCommand

\* C10 witness: a call past the end of a two-command script has returned
C10_Witness ==
  /\ proc = "call" /\ arg[1] = "getCommand" /\ res # <<>>
  /\ Len(arg[2]) = 2 /\ arg[3] = 3 /\ res[1] = ""

\* ---------------------------------------------------------------- C11
\* the pcs of a standard-mode cycle past its top-of-cycle checks
StdCyclePcs == {"s_newsess", "s_pty", "s_output", "s_sleep"}

TopPcs == {"s_top", "t_top"}
IssuePcs == {"s_output", "t_write"}

\* C12: the TTL is tested at the top of each cycle, before the command is
\* fetched or issued.  An agent with TTL 0 never issues a command; a cycle
\* whose test finds the TTL expired returns success without issuing; and a
\* command is issued only by the execute/write step further down the cycle.
C12_TTLAtTopOfCycle ==
  [][\A g \in G :
       /\ flags.ttl = 0 => issued'[g] = <<>>
       /\ (pc[g] \in TopPcs /\ pc'[g] # pc[g] /\ TTLCheck(tgt[g]) = {TRUE})
            => /\ pc'[g] = "close" /\ runErr'[g] = NoErr
               /\ issued'[g] = issued[g]
       /\ issued'[g] # issued[g] => pc[g] \in IssuePcs]_vars

\* C12 witness: an agent with TTL 0 dialed, its loop stopped at the first TTL
\* test with success, uncancelled, and no command was issued
C12_Witness ==
  \E g \in G :
    /\ flags.ttl = 0 /\ ~cancelled
    /\ connErr[g] = NoErr /\ tgt[g] = g
    /\ agents[g].Connection # NilConn
    /\ pc[g] = "close" /\ runErr[g] = NoErr /\ issued[g] = <<>>

\* ---------------------------------------------------------------- C13
\* C13: RunProgram called on an agent that holds no connection handle returns
\* the not-connected error at once, in both modes: it opens no session,
\* issues no command, starts no wait and touches no connection.
C13_NotConnectedAtOnce ==
  [][\A g \in G :
       (/\ pc[g] = "r_call" /\ pc'[g] # "r_call"
        /\ ~BadReceiver(Receiver(g))
        /\ agents[Receiver(g)].Connection = NilConn)
       => /\ pc'[g] = "close" /\ runErr'[g] = NotConnected
          /\ sess'[g] = 0 /\ timer'[g] = 0
          /\ issued' = issued /\ conn' = conn /\ agents' = agents]_vars

\* C13 witness: in interactive mode Connect failed or was cancelled and the
\* RunProgram call that followed returned the not-connected error
C13_Witness ==
  \E g \in G :
    /\ flags.tty /\ connErr[g] # NoErr
    /\ pc[g] = "close" /\ runErr[g] = NotConnected /\ issued[g] = <<>>

\* ---------------------------------------------------------------- C14
\* C14: Agent.Close is idempotent, and the underlying connection of each
\* successful dial is closed at most once over any sequence of calls,
\* including Close inside the command loop followed by the goroutine's Close.
C14_ClosedAtMostOnce ==
  \A h \in Handles : conn[h].closes <= 1

\* ---------------------------------------------------------------- C15
\* C15: in standard mode, when opening the per-command session fails or
\* executing the command fails, RunStandardProgram returns that failure with
\* the agent's connection handle already cleared.
C15_StdFailureReleases ==
  \A g \in G :
    (/\ pc[g] = "close" /\ ~flags.tty
     /\ runErr[g].kind \in {"NewSession", "Output"})
    => agents[tgt[g]].Connection = NilConn

\* ---------------------------------------------------------------- C16
\* C16: in interactive mode any failure of the session setup (NewSession,
\* RequestPty, the three pipes, Shell) and any failure of a write to the shell
\* input makes RunTTYProgram return the error with the connection handle
\* cleared.
C16_TtyFailureReleases ==
  \A g \in G :
    (/\ pc[g] = "close" /\ flags.tty
     /\ runErr[g].kind \in {"NewSession", "RequestPty", "StdinPipe",
                             "StdoutPipe", "StderrPipe", "Shell", "Write"})
    => agents[tgt[g]].Connection = NilConn

\* ---------------------------------------------------------------- C17
\* the pcs at which a standard-mode loop holds the session it opened
StdSessionPcs == {"s_pty", "s_output"}

BeforeIssuePcs == {"s_top", "s_newsess", "s_pty", "s_output", "t_top", "t_write"}
AfterIssuePcs == {"s_sleep", "t_sleep"}

\* C18: within one agent a successful dial precedes every command, and the
\* command indices used on the agent are 0, 1, 2, ... in this order, none
\* skipped or repeated; the index advances only after its command was issued
\* and the cadence wait completed.
C18_ConnectThenIndicesInOrder ==
  /\ \A g \in G :
       /\ \A j \in 1..Len(issued[g]) : issued[g][j][1] = j - 1
       /\ pc[g] \in BeforeIssuePcs => Len(issued[g]) = idx[g]
       /\ pc[g] \in AfterIssuePcs => Len(issued[g]) = idx[g] + 1
       /\ issued[g] # <<>>
            => \E h \in Handles :
                 conn[h].dialed /\ agents[tgt[g]].ConnectionStart.by = h
  /\ \A g1, g2 \in G :
       (g1 # g2 /\ tgt[g1] = tgt[g2]) => (issued[g1] = <<>> \/ issued[g2] = <<>>)

\* ---------------------------------------------------------------- C19
\* C19: every goroutine connects, runs and closes the one agent it was
\* launched for: the receiver of its Connect and RunProgram calls is its own
\* agent, and an agent's handle is only ever one dialed by its own goroutine.
C19_OwnAgentOnly ==
  /\ \A g \in G : tgt[g] = g
  /\ \A k \in G :
       agents[k] # NilAgent => agents[k].Connection \in {NilConn, k + 1}

\* ---------------------------------------------------------------- C20
\* the positions of a goroutine inside Agent.Connect
ConnectPcs == {"c_call", "c_delay", "c_check", "c_dial", "c_backoff"}

\* C20: Agent.Connect changes the agent's Connection and ConnectionStart only
\* by a successful dial.  A call that finds a handle held returns success at
\* once with no delay and no dial; a step that returns an error, and every
\* other step of Connect, leaves all agents and connections as they are; the
\* successful dial stores the dialed connection, stamps ConnectionStart with
\* the time of that dial and returns success.
C20_ConnectFrame ==
  [][\A g \in G :
       (pc[g] \in ConnectPcs /\ pc'[g] # pc[g])
       => /\ \/ agents' = agents /\ conn' = conn
             \/ /\ pc[g] = "c_dial" /\ pc'[g] = "r_call" /\ connErr'[g] = NoErr
                /\ agents' = [agents EXCEPT
                      ![tgt[g]].ConnectionStart = [by |-> g + 1, age |-> 0],
                      ![tgt[g]].Connection = g + 1]
                /\ conn' = [conn EXCEPT ![g + 1].dialed = TRUE]
          /\ (pc'[g] = "r_call" /\ connErr'[g] # NoErr)
               => agents' = agents /\ conn' = conn
          /\ (/\ pc[g] = "c_call" /\ ~BadReceiver(Receiver(g))
              /\ agents[Receiver(g)].Connection # NilConn)
               => /\ pc'[g] = "r_call" /\ connErr'[g] = NoErr
                  /\ agents' = agents /\ conn' = conn
                  /\ dials' = dials /\ timer'[g] = 0]_vars

\* C20 witness: a Connect with one retry has returned the error of its second
\* failed dial, and the agent's fields are as they were on entry
C20_Witness ==
  \E g \in G :
    /\ pc[g] = "r_call" /\ dials[g] = 2 /\ connErr[g] = DialErr(2)
    /\ tgt[g] = g /\ entry[g].conn = NilConn
    /\ agents[g].Connection = NilConn
    /\ agents[g].ConnectionStart = ZeroTime(agents[g].ConnectionTTL)

\* ---------------------------------------------------------------- C21
\* C21: Agent.Connect returns nil only when the agent holds a connection
\* handle on return, for every value of MaxRetries, zero and negative ones
\* included.
C21_SuccessMeansConnected ==
  [][\A g \in G :
       (/\ pc[g] \in ConnectPcs /\ pc'[g] = "r_call"
        /\ connErr'[g] = NoErr)
       => agents'[tgt'[g]].Connection # NilConn]_vars

====
